---------------------------- MODULE Spec2Model ----------------------------
(***************************************************************************)
(* Model of src/app.py: the distributor CRUD application backed by one     *)
(* worksheet (WORKSHEET), with the 5-minute read cache of carregar_dados,  *)
(* the per-session st.session_state.df snapshot, the cookie login and the  *)
(* create / edit / delete handlers.                                        *)
(*                                                                         *)
(* Text is modelled by its characters: every string of the model has its   *)
(* character sequence in Chars, and strip / lower / upper / regex match /  *)
(* float parsing are computed on those characters.  Coordinates are        *)
(* integers in hundredths of a degree (-22.9 is -2290); NA is pd.NA/None.  *)
(***************************************************************************)
EXTENDS Integers, Sequences, FiniteSets, TLC

(***************************************************************************)
(* Bounds of the model.                                                    *)
(***************************************************************************)
\* Largest number of data rows the worksheet may hold (appends are guarded).
MaxRows == 2

(***************************************************************************)
(* Generic sequence helpers.                                               *)
(***************************************************************************)
Range(s) == {s[i] : i \in DOMAIN s}

SelectIdx(s, Test(_)) == {i \in DOMAIN s : Test(s[i])}

RECURSIVE DropWhileHead(_, _)
DropWhileHead(s, c) ==
    IF s # <<>> /\ Head(s) = c THEN DropWhileHead(Tail(s), c) ELSE s

RECURSIVE DropWhileLast(_, _)
DropWhileLast(s, c) ==
    IF s # <<>> /\ s[Len(s)] = c THEN DropWhileLast(SubSeq(s, 1, Len(s) - 1), c) ELSE s

(***************************************************************************)
(* Text: the strings of the model and their characters.                    *)
(***************************************************************************)
Chars(s) ==
    CASE s = ""                -> <<>>
      [] s = "A"               -> <<"A">>
      [] s = "A "              -> <<"A", " ">>
      [] s = "B"               -> <<"B">>
      [] s = "C"               -> <<"C">>
      [] s = "AC"              -> <<"A", "C">>
      [] s = "Rio Branco"      -> <<"R", "i", "o", " ", "B", "r", "a", "n", "c", "o">>
      [] s = "rio branco"      -> <<"r", "i", "o", " ", "b", "r", "a", "n", "c", "o">>
      [] s = "Curitiba - PR"   -> <<"C", "u", "r", "i", "t", "i", "b", "a", " ", "-", " ", "P", "R">>
      [] s = "Londrina - PR"   -> <<"L", "o", "n", "d", "r", "i", "n", "a", " ", "-", " ", "P", "R">>
      [] s = "Rio Branco - AC" -> <<"R", "i", "o", " ", "B", "r", "a", "n", "c", "o", " ", "-", " ", "A", "C">>
      [] s = "(11) 91234-5678" -> <<"(", "1", "1", ")", " ", "9", "1", "2", "3", "4", "-", "5", "6", "7", "8">>
      [] s = "(11) 1234-5678"  -> <<"(", "1", "1", ")", " ", "1", "2", "3", "4", "-", "5", "6", "7", "8">>
      [] s = "11 91234-5678"   -> <<"1", "1", " ", "9", "1", "2", "3", "4", "-", "5", "6", "7", "8">>
      [] s = "a@b.co"          -> <<"a", "@", "b", ".", "c", "o">>
      [] s = "a@b"             -> <<"a", "@", "b">>
      [] s = "PR"              -> <<"P", "R">>
      [] s = "pr"              -> <<"p", "r">>
      [] s = "Curitiba"        -> <<"C", "u", "r", "i", "t", "i", "b", "a">>
      [] s = "curitiba"        -> <<"c", "u", "r", "i", "t", "i", "b", "a">>
      [] s = "Curitiba "       -> <<"C", "u", "r", "i", "t", "i", "b", "a", " ">>
      [] s = "Londrina"        -> <<"L", "o", "n", "d", "r", "i", "n", "a">>
      [] s = "londrina"        -> <<"l", "o", "n", "d", "r", "i", "n", "a">>
      [] s = "-22.9"           -> <<"-", "2", "2", ".", "9">>
      [] s = "-47.06"          -> <<"-", "4", "7", ".", "0", "6">>
      [] s = "-23,5"           -> <<"-", "2", "3", ",", "5">>
      [] s = "-23.5"           -> <<"-", "2", "3", ".", "5">>
      [] s = "40.0"            -> <<"4", "0", ".", "0">>
      [] s = "40"              -> <<"4", "0">>
      [] s = "-70.0"           -> <<"-", "7", "0", ".", "0">>
      [] s = "-70"             -> <<"-", "7", "0">>
      [] s = "-20.0"           -> <<"-", "2", "0", ".", "0">>
      [] s = "abc"             -> <<"a", "b", "c">>

Strings ==
    {"", "A", "A ", "B", "C", "AC", "Rio Branco", "rio branco",
     "Curitiba - PR", "Londrina - PR", "Rio Branco - AC", "Curitiba ", "(11) 91234-5678", "(11) 1234-5678", "11 91234-5678",
     "a@b.co", "a@b", "PR", "pr", "Curitiba", "curitiba", "Londrina", "londrina",
     "-22.9", "-47.06", "-23,5", "-23.5", "40.0", "40", "-70.0", "-70", "-20.0", "abc"}

\* The string whose characters are cs.
Str(cs) == CHOOSE s \in Strings : Chars(s) = cs

Digits == {"0", "1", "2", "3", "4", "5", "6", "7", "8", "9"}

UpperLetters == <<"A", "B", "C", "L", "P", "R">>
LowerLetters == <<"a", "b", "c", "l", "p", "r">>

LowerChar(c) ==
    IF \E i \in DOMAIN UpperLetters : UpperLetters[i] = c
    THEN LowerLetters[CHOOSE i \in DOMAIN UpperLetters : UpperLetters[i] = c]
    ELSE c

UpperChar(c) ==
    IF \E i \in DOMAIN LowerLetters : LowerLetters[i] = c
    THEN UpperLetters[CHOOSE i \in DOMAIN LowerLetters : LowerLetters[i] = c]
    ELSE c

\* Characters matched by the regex class \w (letters, digits, underscore).
IsWordChar(c) ==
    \/ c \in Digits
    \/ c = "_"
    \/ c \in {"a", "b", "c", "d", "i", "l", "n", "o", "p", "r", "t", "u", "A", "B", "C", "L", "P", "R"}

StripChars(cs) == DropWhileLast(DropWhileHead(cs, " "), " ")

\* str.strip(), str.lower(), str.upper(), computed on the characters.
StripOf(s) == Str(StripChars(Chars(s)))
LowerOf(s) == Str([i \in DOMAIN Chars(s) |-> LowerChar(Chars(s)[i])])
UpperOf(s) == Str([i \in DOMAIN Chars(s) |-> UpperChar(Chars(s)[i])])

\* The strings that are lower-cased (cities) and upper-cased (state codes).
CityStrings  == {"", "Curitiba", "curitiba", "Londrina", "londrina", "Rio Branco", "rio branco"}
StateStrings == {"", "PR", "pr", "AC"}

\* The same three, tabulated once (f @@ f is f, enumerated).
StripTable == LET f == [s \in Strings |-> StripOf(s)] IN f @@ f
LowerTable == LET f == [s \in CityStrings |-> LowerOf(s)] IN f @@ f
UpperTable == LET f == [s \in StateStrings |-> UpperOf(s)] IN f @@ f

Strip(s) == StripTable[s]
Lower(s) == LowerTable[s]
Upper(s) == UpperTable[s]

AllIn(cs, lo, hi, Class(_)) == \A i \in lo..hi : Class(cs[i])

IsDigit(c) == c \in Digits

(***************************************************************************)
(* validar_telefone, validar_email: the two regular expressions.           *)
(***************************************************************************)
\* ^\(\d{2}\) \d{4,5}-\d{4}$
MatchTelefone(cs) ==
    \E k \in {4, 5} :
        /\ Len(cs) = 10 + k
        /\ cs[1] = "(" /\ IsDigit(cs[2]) /\ IsDigit(cs[3]) /\ cs[4] = ")" /\ cs[5] = " "
        /\ AllIn(cs, 6, 5 + k, IsDigit)
        /\ cs[6 + k] = "-"
        /\ AllIn(cs, 7 + k, 10 + k, IsDigit)

TelefoneTable == LET f == [s \in Strings |-> MatchTelefone(Chars(s))] IN f @@ f

validar_telefone(tel) == TelefoneTable[tel]

IsEmailChar(c) == IsWordChar(c) \/ c = "." \/ c = "-"

\* ^[\w\.-]+@[\w\.-]+\.\w+$ : at is the position of "@", dot that of the last
\* "." before the final \w+ run.
MatchEmail(cs) ==
    \E at \in 2..Len(cs) : \E dot \in (at + 2)..(Len(cs) - 1) :
        /\ AllIn(cs, 1, at - 1, IsEmailChar)
        /\ cs[at] = "@"
        /\ AllIn(cs, at + 1, dot - 1, IsEmailChar)
        /\ cs[dot] = "."
        /\ AllIn(cs, dot + 1, Len(cs), IsWordChar)

EmailTable == LET f == [s \in Strings |-> MatchEmail(Chars(s))] IN f @@ f

validar_email(email) == EmailTable[email]

(***************************************************************************)
(* Coordinates: sanitisation and validation.                               *)
(***************************************************************************)
\* pd.NA / None: an absent coordinate (no coordinate of the model has this value).
NA == 99999

LAT_MIN == -3500
LAT_MAX == 600
LON_MIN == -8200
LON_MAX == -3000

DigitVal(c) == CHOOSE d \in 0..9 : <<"0", "1", "2", "3", "4", "5", "6", "7", "8", "9">>[d + 1] = c

RECURSIVE DigitsVal(_)
DigitsVal(cs) == IF cs = <<>> THEN 0 ELSE 10 * DigitsVal(SubSeq(cs, 1, Len(cs) - 1)) + DigitVal(cs[Len(cs)])

RemoveChar(cs, c) == SelectSeq(cs, LAMBDA x : x # c)

ReplaceChar(cs, old, new) == [i \in DOMAIN cs |-> IF cs[i] = old THEN new ELSE cs[i]]

\* float(s) on a decimal literal [-]d+[.d{0,2}], in hundredths; NA when float()
\* raises ValueError.
ParseFloat(cs) ==
    LET neg  == cs # <<>> /\ Head(cs) = "-"
        body == IF neg THEN Tail(cs) ELSE cs
        dots == {i \in DOMAIN body : body[i] = "."}
        ip   == IF dots = {} THEN body ELSE SubSeq(body, 1, (CHOOSE i \in dots : TRUE) - 1)
        fp   == IF dots = {} THEN <<>> ELSE SubSeq(body, (CHOOSE i \in dots : TRUE) + 1, Len(body))
        ok   == /\ Cardinality(dots) <= 1
                /\ ip # <<>>
                /\ Len(fp) <= 2
                /\ \A i \in DOMAIN ip : IsDigit(ip[i])
                /\ \A i \in DOMAIN fp : IsDigit(fp[i])
        frac == IF Len(fp) = 0 THEN 0
                ELSE IF Len(fp) = 1 THEN 10 * DigitVal(fp[1])
                ELSE DigitsVal(fp)
        mag  == 100 * DigitsVal(ip) + frac
    IN  IF ~ok THEN NA ELSE IF neg THEN 0 - mag ELSE mag

\* Lines 74-83 on a cell of the sheet (text).
FloatOfText(x) ==
    LET s0 == StripChars(Chars(x))
    IN  IF s0 = <<>> THEN NA
        ELSE ParseFloat(RemoveChar(ReplaceChar(s0, ",", "."), " "))

FloatTable == LET f == [s \in Strings |-> FloatOfText(s)] IN f @@ f

to_float_safe(x) == FloatTable[x]

\* to_float_safe on a value that already is None or a float (lines 70-73).
to_float_safe_num(v) == IF v = NA THEN NA ELSE v

\* A value that is present and on which float() raises (a text that is no
\* number, a list): no coordinate of the model has this value.
NAO_NUMERICO == 88888

\* The same check over the open intervals.
lat_lon_is_valid_Open(lat, lon) ==
    IF lat = NA \/ lon = NA THEN FALSE
    ELSE IF lat = NAO_NUMERICO \/ lon = NAO_NUMERICO THEN FALSE
    ELSE (LAT_MIN < lat /\ lat < LAT_MAX) /\ (LON_MIN < lon /\ lon < LON_MAX)

\* Lines 85-92: pd.isna of either value answers False (line 87-88); a
\* float() that raises is caught by the bare except, which answers False
\* (lines 91-92); otherwise the closed-interval test of line 90.
lat_lon_is_valid(lat, lon) ==
    IF lat = NA \/ lon = NA THEN FALSE
    ELSE IF lat = NAO_NUMERICO \/ lon = NAO_NUMERICO THEN FALSE
    ELSE (LAT_MIN <= lat /\ lat <= LAT_MAX) /\ (LON_MIN <= lon /\ lon <= LON_MAX)

RECURSIVE NatChars(_)
NatChars(n) ==
    IF n < 10 THEN << <<"0", "1", "2", "3", "4", "5", "6", "7", "8", "9">>[n + 1] >>
    ELSE NatChars(n \div 10) \o NatChars(n % 10)

\* The cell written for a coordinate: the float's shortest decimal text, and
\* the empty cell for an absent one.
FormatCoordOf(v) ==
    IF v = NA THEN ""
    ELSE LET mag  == IF v < 0 THEN 0 - v ELSE v
             sign == IF v < 0 THEN <<"-">> ELSE <<>>
             fr   == mag % 100
             frc  == IF fr % 10 = 0 THEN NatChars(fr \div 10)
                     ELSE NatChars(fr \div 10) \o NatChars(fr % 10)
         IN  Str(sign \o NatChars(mag \div 100) \o <<".">> \o frc)

(***************************************************************************)
(* The worksheet: a sequence of rows, each a tuple of seven cells (text).  *)
(* Row 1 is whatever the sheet's first row is; <<>> is a cleared sheet.    *)
(***************************************************************************)
COLUNAS == <<"Distribuidor", "Contato", "Email", "Estado", "Cidade", "Latitude", "Longitude">>

\* Cell of row r under the column named col of header h; "" when h has no such
\* column (lines 118-120).
CellOf(h, r, col) ==
    IF \E i \in DOMAIN h : h[i] = col
    THEN r[CHOOSE i \in DOMAIN h : h[i] = col]
    ELSE ""

\* WORKSHEET.get_all_records(): one record per row under the first one, keyed
\* by the first row's cells.
get_all_records(sh) ==
    IF Len(sh) < 2 THEN <<>>
    ELSE [i \in 1..(Len(sh) - 1) |->
            [c \in Range(COLUNAS) |-> CellOf(sh[1], sh[i + 1], c)]]

\* Lines 129-130: each column is range-checked on its own.
LatInRange(v) == IF v # NA /\ LAT_MIN <= v /\ v <= LAT_MAX THEN v ELSE NA
LonInRange(v) == IF v # NA /\ LON_MIN <= v /\ v <= LON_MAX THEN v ELSE NA

\* Lines 116-132: the DataFrame built from the records.
SanitizeRecord(rec) ==
    [Distribuidor |-> rec["Distribuidor"], Contato |-> rec["Contato"],
     Email |-> rec["Email"], Estado |-> rec["Estado"], Cidade |-> rec["Cidade"],
     Latitude  |-> LatInRange(to_float_safe(rec["Latitude"])),
     Longitude |-> LonInRange(to_float_safe(rec["Longitude"]))]

BuildDf(records) == [i \in DOMAIN records |-> SanitizeRecord(records[i])]

\* The outcome of each sheet call of one carregar_dados() run: TRUE when the
\* call returns, FALSE when it raises (or is not reached: a call after a
\* raising one is written FALSE).
LoadCalls ==
    {k \in [read : BOOLEAN, clear : BOOLEAN, upd : BOOLEAN] :
        /\ ~k.read => ~k.clear
        /\ ~k.clear => ~k.upd}

\* The outcomes written for a run of carregar_dados that is not made.
NoLoad == [read |-> FALSE, clear |-> FALSE, upd |-> FALSE]

\* The outcomes carregar_dados can meet on sheet sh: the clear and the update
\* are reached only when the sheet has no records.
LoadCallsOn(sh) ==
    {k \in LoadCalls : get_all_records(sh) # <<>> => ~k.clear}

\* The sheet after lines 109-113 (clear, then the header update; an exception
\* of either is swallowed).
RestoreHeader(sh, k) ==
    IF ~k.clear THEN sh
    ELSE IF ~k.upd THEN <<>>
    ELSE <<COLUNAS>>

\* A load that treats a failed read like an empty sheet and rewrites the header.
carregar_dados_body_ReadFailRestores(sh, k) ==
    IF ~k.read THEN [df |-> <<>>, sheet |-> <<COLUNAS>>, readError |-> TRUE]
    ELSE IF get_all_records(sh) = <<>>
         THEN [df |-> <<>>, sheet |-> RestoreHeader(sh, k), readError |-> FALSE]
         ELSE [df |-> BuildDf(get_all_records(sh)), sheet |-> sh, readError |-> FALSE]

\* The body of carregar_dados (lines 100-132) on sheet sh with call outcomes k:
\* the DataFrame returned, the sheet left behind, whether st.error was shown.
carregar_dados_body(sh, k) ==
    IF ~k.read THEN [df |-> <<>>, sheet |-> sh, readError |-> TRUE]
    ELSE IF get_all_records(sh) = <<>>
         THEN [df |-> <<>>, sheet |-> RestoreHeader(sh, k), readError |-> FALSE]
         ELSE [df |-> BuildDf(get_all_records(sh)), sheet |-> sh, readError |-> FALSE]

\* @st.cache_data(ttl=300): a valid cache entry answers without running the body.
EmptyCache == [valid |-> FALSE, val |-> <<>>]

carregar_dados(sh, c, k) ==
    IF c.valid
    THEN [df |-> c.val, sheet |-> sh, cache |-> c, ran |-> FALSE, readError |-> FALSE]
    ELSE LET b == carregar_dados_body(sh, k)
         IN  [df |-> b.df, sheet |-> b.sheet, cache |-> [valid |-> TRUE, val |-> b.df],
              ran |-> TRUE, readError |-> b.readError]

\* refresh_local_df (lines 134-139): clear the cache, reload, store in the session.
refresh_local_df(sh, k) == carregar_dados(sh, EmptyCache, k)

\* The data rows of the sheet (all rows under the first).
DataRows(sh) == IF Len(sh) < 2 THEN <<>> ELSE SubSeq(sh, 2, Len(sh))

(***************************************************************************)
(* Capitals (lines 202-210).  f"{cidade}-{uf}" is modelled by the pair.    *)
(***************************************************************************)
CAPITAIS_BRASILEIRAS ==
    {<<"Rio Branco", "AC">>, <<"Maceió", "AL">>, <<"Macapá", "AP">>, <<"Manaus", "AM">>,
     <<"Salvador", "BA">>, <<"Fortaleza", "CE">>, <<"Brasília", "DF">>, <<"Vitória", "ES">>,
     <<"Goiânia", "GO">>, <<"São Luís", "MA">>, <<"Cuiabá", "MT">>, <<"Campo Grande", "MS">>,
     <<"Belo Horizonte", "MG">>, <<"Belém", "PA">>, <<"João Pessoa", "PB">>,
     <<"Curitiba", "PR">>, <<"Recife", "PE">>, <<"Teresina", "PI">>,
     <<"Rio de Janeiro", "RJ">>, <<"Natal", "RN">>, <<"Porto Alegre", "RS">>,
     <<"Boa Vista", "RR">>, <<"Florianópolis", "SC">>, <<"São Paulo", "SP">>,
     <<"Aracaju", "SE">>, <<"Palmas", "TO">>}

cidade_eh_capital(cidade, uf) == <<cidade, uf>> \in CAPITAIS_BRASILEIRAS

(***************************************************************************)
(* Geocoder with its process-lifetime cache.                               *)
(***************************************************************************)
\* What the external geocoding service answers to one lookup: a failure
\* (not found, timeout, exception) or a coordinate.
GeoFail    == [ok |-> FALSE, lat |-> NA, lon |-> NA]
GeoInside  == [ok |-> TRUE, lat |-> -2290, lon |-> -4706]
GeoOutside == [ok |-> TRUE, lat |-> 4000, lon |-> -7000]
ServiceAnswers == {GeoFail, GeoInside, GeoOutside}

\* The coordinate values a built row can carry, and their cells, tabulated.
CoordValues == {NA} \cup {a.lat : a \in ServiceAnswers} \cup {a.lon : a \in ServiceAnswers}
FormatTable == LET f == [v \in CoordValues |-> FormatCoordOf(v)] IN f @@ f
FormatCoord(v) == FormatTable[v]

\* Lines 148 / 181: the cells written for a built row.
RowValues(r) ==
    <<r.Distribuidor, r.Contato, r.Email, r.Estado, r.Cidade,
      FormatCoord(r.Latitude), FormatCoord(r.Longitude)>>

\* Cache key: case-folded city, upper-cased state.
GeoKey(cidade, estado) == <<Lower(cidade), Upper(estado)>>

Absent == <<NA, NA>>

\* What one resolve stores for a service answer: the pair when valid, a
\* negative entry otherwise.
GeoResult(ans) ==
    IF ans.ok /\ lat_lon_is_valid(ans.lat, ans.lon) THEN <<ans.lat, ans.lon>> ELSE Absent

\* A geocoder that consults no cache: every resolve calls the service.
obter_coordenadas_SemCache(cidade, estado, gc, ans) ==
    [pair |-> GeoResult(ans),
     cache |-> [k \in DOMAIN gc \cup {GeoKey(cidade, estado)} |->
                   IF k = GeoKey(cidade, estado) THEN GeoResult(ans) ELSE gc[k]],
     called |-> TRUE, key |-> GeoKey(cidade, estado)]

\* obter_coordenadas(cidade, estado) with cache gc, the service answering ans
\* if it is called: the pair returned, the cache afterwards, whether the
\* service was called.
obter_coordenadas(cidade, estado, gc, ans) ==
    LET key == GeoKey(cidade, estado)
    IN  IF key \in DOMAIN gc
        THEN [pair |-> gc[key], cache |-> gc, called |-> FALSE, key |-> key]
        ELSE [pair |-> GeoResult(ans), cache |-> gc @@ (key :> GeoResult(ans)),
              called |-> TRUE, key |-> key]

\* What the service would answer to the lookups of one loop over cidades,
\* one answer per city.  For a city the cache already holds, the answer is
\* one that differs from the cached outcome.
Answers(cidades, estado, gc) ==
    {a \in [DOMAIN cidades -> ServiceAnswers] :
        \A i \in DOMAIN cidades :
            LET key == GeoKey(cidades[i], estado)
            IN  key \in DOMAIN gc =>
                    a[i] = IF gc[key] = Absent THEN GeoInside ELSE GeoFail}

\* A row builder that stores the pair's values in each other's column.
BuildRow_Swapped(nome, contato, email, estado, cidade, pair) ==
    LET lat_v == to_float_safe_num(pair[1])
        lon_v == to_float_safe_num(pair[2])
        ok    == lat_lon_is_valid(lat_v, lon_v)
    IN  [Distribuidor |-> nome, Contato |-> contato, Email |-> email, Estado |-> estado,
         Cidade |-> cidade,
         Latitude  |-> IF ok THEN lon_v ELSE NA,
         Longitude |-> IF ok THEN lat_v ELSE NA]

\* Lines 476-482 / 531-535: the row built for one city from the pair returned.
BuildRow(nome, contato, email, estado, cidade, pair) ==
    LET lat_v == to_float_safe_num(pair[1])
        lon_v == to_float_safe_num(pair[2])
        ok    == lat_lon_is_valid(lat_v, lon_v)
    IN  [Distribuidor |-> nome, Contato |-> contato, Email |-> email, Estado |-> estado,
         Cidade |-> cidade,
         Latitude  |-> IF ok THEN lat_v ELSE NA,
         Longitude |-> IF ok THEN lon_v ELSE NA]

\* The loop over the selected cities (lines 475-482 / 530-535): g is the state
\* so far [cache, calls, novos, geo]; answers[i] is the service's answer at
\* lookup i.
RECURSIVE BuildRows(_, _, _, _, _, _, _)
BuildRows(nome, contato, email, estado, cidades, answers, g) ==
    LET i == Len(g.novos) + 1
    IN  IF i > Len(cidades) THEN g
        ELSE LET r == obter_coordenadas(cidades[i], estado, g.cache, answers[i])
             IN  BuildRows(nome, contato, email, estado, cidades, answers,
                    [cache |-> r.cache,
                     calls |-> IF r.called
                               THEN [g.calls EXCEPT ![r.key] = @ + 1]
                               ELSE g.calls,
                     novos |-> Append(g.novos,
                                  BuildRow(nome, contato, email, estado, cidades[i], r.pair)),
                     geo   |-> Append(g.geo,
                                  IF ~r.called THEN "hit"
                                  ELSE IF ~answers[i].ok THEN "fail"
                                  ELSE IF r.pair = Absent THEN "out" ELSE "found")])

(***************************************************************************)
(* State.                                                                  *)
(***************************************************************************)
VARIABLES
    sheet,      \* the rows of WORKSHEET
    cache,      \* the st.cache_data entry of carregar_dados: [valid, val]
    dfSet,      \* "df" in st.session_state
    df,         \* st.session_state.df
    cookies,    \* [usuario, nivel]: the two login cookies
    geocache,   \* the geocoder's cache: key -> pair
    geoCalls,   \* per key, how many times the external service was called
    last,       \* what the last script run did and showed
    estado_filtro,                \* st.session_state.estado_filtro
    distribuidores_selecionados,  \* st.session_state.distribuidores_selecionados
    cidade_busca,                 \* st.session_state.cidade_busca
    mapa,       \* what the map page of the last script run computed
    chamada     \* a call of the function under study: its arguments and its answer

\* The three filter keys of the map page in st.session_state (lines 609-614).
filtros == <<estado_filtro, distribuidores_selecionados, cidade_busca>>

vars == <<sheet, cache, dfSet, df, cookies, geocache, geoCalls, last,
          estado_filtro, distribuidores_selecionados, cidade_busca, mapa, chamada>>

\* usuarios.json: user -> password and access level (lines 385-399).
Usuarios == {"admin", "guest"}
SenhaDe(u) == IF u = "admin" THEN "admin123" ELSE "guest123"
NivelDe(u) == IF u = "admin" THEN "editor" ELSE "viewer"

\* The state codes offered by carregar_estados().
Siglas == {"AC", "PR"}
\* carregar_cidades(uf): the cities offered for a state.
CidadesDe(uf) ==
    IF Upper(uf) = "PR" THEN {"Curitiba", "Londrina"}
    ELSE IF Upper(uf) = "AC" THEN {"Rio Branco"}
    ELSE {}
\* The values of a multiselect over opts: here the options chosen in the
\* order of the option list (carregar_cidades sorts it by name).
Selecoes(opts) ==
    {<<>>} \cup {<<a>> : a \in opts}
           \cup (IF {"Curitiba", "Londrina"} \subseteq opts
                 THEN {<<"Curitiba", "Londrina">>} ELSE {})

GeoKeys == {GeoKey(c, "PR") : c \in CidadesDe("PR")}

\* Sheets the application may find when it starts.
RowLondrinaA == <<"A", "(11) 91234-5678", "a@b.co", "PR", "Londrina", "-22.9", "-47.06">>
RowHandB     == <<"B", "(11) 91234-5678", "a@b.co", "PR", "Curitiba", "40.0", "-70.0">>
InitSheets ==
    {<<>>, <<COLUNAS>>, <<COLUNAS, RowLondrinaA>>, <<COLUNAS, RowLondrinaA, RowHandB>>}

\* What a script run did and showed: the button pressed (op), the form
\* submitted, whether st.success / which st.error was shown, the distributor
\* selected (dist), the rows built (novos) with the kind of each lookup (geo),
\* which row writes returned (rowOk), how many write calls were issued for
\* the rows (writes), the sheet calls of the load (load) and whether the load
\* showed its read error (readError), and what was typed in the login form
\* (usuario, senha).
NoForm == [nome |-> "", contato |-> "", email |-> "", estado |-> "", cidades |-> <<>>]

NoRun ==
    [op |-> "none", success |-> FALSE, error |-> "", dist |-> "", form |-> NoForm,
     novos |-> <<>>, geo |-> <<>>, rowOk |-> <<>>, writes |-> 0, load |-> NoLoad,
     readError |-> FALSE,
     usuario |-> "", senha |-> ""]

\* The map page before it is first rendered: the value of the state
\* selectbox, the option list of the distributor filter, the value its
\* multiselect returned, the value of the city selectbox, whether "Limpar
\* filtros" was pressed, the two
\* frames, and the folium map drawn: its centre, its zoom and the rows that
\* got a marker.
NoMapa == [estado |-> "", opcoes |-> <<>>, escolha |-> <<>>, cidade |-> "", limpar |-> FALSE,
           df_filtro |-> <<>>, df_cidade |-> <<>>,
           location |-> <<>>, zoom_start |-> 0, markers |-> <<>>]

\* No call of lat_lon_is_valid under observation.
NoChamada == [lat |-> NA, lon |-> NA, feita |-> FALSE, ret |-> FALSE]

\* A session that has not opened the map page: the defaults of lines 609-614.
FiltrosIniciais ==
    /\ estado_filtro = ""
    /\ distribuidores_selecionados = <<>>
    /\ cidade_busca = ""
    /\ mapa = NoMapa

Init ==
    /\ sheet \in InitSheets
    /\ cache = EmptyCache
    /\ dfSet = FALSE
    /\ df = <<>>
    /\ cookies = [usuario |-> "", nivel |-> ""]
    /\ geocache = <<>>
    /\ geoCalls = [k \in GeoKeys |-> 0]
    /\ last = NoRun
    /\ FiltrosIniciais
    /\ chamada = NoChamada

\* A script run starts from a page on which nothing of the previous run is
\* shown any more (see Rerun).
Idle == last = NoRun

logado == cookies.usuario # "" /\ cookies.nivel # ""
nivel_acesso == IF logado THEN cookies.nivel ELSE ""

\* A gate that lets every logged-in level through.
EditorGate_Any(nivel) == nivel # ""

\* Lines 450 and 504: the pages that write are shown to the editor level only.
EditorGate(nivel) == nivel = "editor"

\* Column of the session DataFrame.
Coluna(d, col) == [i \in DOMAIN d |-> d[i][col]]

(***************************************************************************)
(* Login form (lines 406-418) and logout (lines 421-425).                  *)
(***************************************************************************)
\* The page of the previous run is replaced when the next run starts: its
\* messages are gone.  Nothing of the program's state changes.
Rerun ==
    /\ ~Idle
    /\ last' = NoRun
    /\ mapa' = NoMapa
    /\ UNCHANGED <<sheet, cache, dfSet, df, cookies, geocache, geoCalls, filtros, chamada>>

\* A check of the user name alone.
Autentica_SoUsuario(usuario, senha) == usuario \in Usuarios

\* Line 411: the user exists and bcrypt.checkpw accepts the password.
Autentica(usuario, senha) == usuario \in Usuarios /\ senha = SenhaDe(usuario)

Login ==
    /\ Idle
    /\ ~logado
    /\ \E usuario \in Usuarios \cup {"x"}, senha \in {"admin123", "guest123"} :
          IF Autentica(usuario, senha)
          THEN /\ cookies' = [usuario |-> usuario, nivel |-> NivelDe(usuario)]
               /\ last' = [NoRun EXCEPT !.op = "login", !.success = TRUE,
                                         !.usuario = usuario, !.senha = senha]
          ELSE /\ cookies' = cookies
               /\ last' = [NoRun EXCEPT !.op = "login", !.error = "login",
                                         !.usuario = usuario, !.senha = senha]
    /\ UNCHANGED <<sheet, cache, dfSet, df, geocache, geoCalls, filtros, mapa, chamada>>

Logout ==
    /\ Idle
    /\ logado
    /\ cookies' = [usuario |-> "", nivel |-> ""]
    /\ last' = [NoRun EXCEPT !.op = "logout"]
    /\ UNCHANGED <<sheet, cache, dfSet, df, geocache, geoCalls, filtros, mapa, chamada>>

\* A script run of a logged-in session with no button pressed.  Lines 430-431
\* load the DataFrame when st.session_state has none, which is the case in the
\* first run of a session (nova: a new browser session of the same process,
\* whose st.session_state starts empty).  expirou: the cache entry of
\* carregar_dados is older than its ttl of 300 s; the entry is consulted
\* nowhere else without being cleared first, so expiry shows only here.
Render ==
    /\ Idle
    /\ logado
    /\ \E nova \in BOOLEAN, expirou \in BOOLEAN, k \in LoadCallsOn(sheet) :
          /\ IF dfSet /\ ~nova
             THEN /\ ~expirou /\ k = NoLoad
                  /\ last' = [NoRun EXCEPT !.op = "render"]
                  /\ UNCHANGED <<sheet, cache, dfSet, df>>
             ELSE \E r \in {carregar_dados(sheet, IF expirou THEN EmptyCache ELSE cache, k)} :
                      /\ (~r.ran => k = NoLoad)
                      /\ sheet' = r.sheet
                      /\ cache' = r.cache
                      /\ df' = r.df
                      /\ dfSet' = TRUE
                      /\ last' = [NoRun EXCEPT !.op = "render", !.load = k,
                                                !.readError = r.readError]
          /\ IF nova
             THEN /\ estado_filtro' = ""
                  /\ distribuidores_selecionados' = <<>>
                  /\ cidade_busca' = ""
             ELSE UNCHANGED filtros
    /\ UNCHANGED <<cookies, geocache, geoCalls, mapa, chamada>>

(***************************************************************************)
(* Cadastro: "Adicionar Distribuidor" (lines 450-495).                     *)
(***************************************************************************)
\* An append that calls the sheet a second time when the first call raises.
append_row_to_sheet_Retry(sh, row_values, ok) ==
    IF ok
    THEN [sheet |-> Append(sh, RowValues(row_values)), ok |-> TRUE, err |-> "", calls |-> 1]
    ELSE [sheet |-> sh, ok |-> FALSE, err |-> "erro", calls |-> 2]

\* append_row_to_sheet (lines 144-152) on sheet sh, the call WORKSHEET.append_row
\* returning (ok) or raising: the sheet afterwards, the pair returned (ok, err)
\* and the number of sheet calls issued.
append_row_to_sheet(sh, row_values, ok) ==
    IF ok
    THEN [sheet |-> Append(sh, RowValues(row_values)), ok |-> TRUE, err |-> "", calls |-> 1]
    ELSE [sheet |-> sh, ok |-> FALSE, err |-> "erro", calls |-> 1]

\* update_sheet_row_by_index (lines 177-187), likewise, for the row at row_index.
update_sheet_row_by_index(sh, row_index, row_values, ok) ==
    IF ok
    THEN [sheet |-> [sh EXCEPT ![row_index] = RowValues(row_values)],
          ok |-> TRUE, err |-> "", calls |-> 1]
    ELSE [sheet |-> sh, ok |-> FALSE, err |-> "erro", calls |-> 1]

\* An append loop that gives up at the first row whose write raises.
RECURSIVE AppendLoop_StopAtFailure(_, _, _)
AppendLoop_StopAtFailure(sh, novos, rowOk) ==
    IF novos = <<>> \/ ~Head(rowOk) THEN sh
    ELSE AppendLoop_StopAtFailure(Append(sh, RowValues(Head(novos))),
                                  Tail(novos), Tail(rowOk))

\* An append loop that leaves out the rows without coordinates.
RECURSIVE AppendLoop_SkipAbsent(_, _, _)
AppendLoop_SkipAbsent(sh, novos, rowOk) ==
    IF novos = <<>> THEN sh
    ELSE AppendLoop_SkipAbsent(
            IF Head(rowOk) /\ Head(novos).Latitude # NA
            THEN Append(sh, RowValues(Head(novos))) ELSE sh,
            Tail(novos), Tail(rowOk))

\* The sheet after the append loop (lines 485-488): row i is appended when its
\* call returns (rowOk[i]).
RECURSIVE AppendLoop(_, _, _)
AppendLoop(sh, novos, rowOk) ==
    IF novos = <<>> THEN sh
    ELSE AppendLoop(append_row_to_sheet(sh, Head(novos), Head(rowOk)).sheet,
                    Tail(novos), Tail(rowOk))

\* The sheet calls issued by the append loop.
RECURSIVE AppendCalls(_, _, _)
AppendCalls(sh, novos, rowOk) ==
    IF novos = <<>> THEN 0
    ELSE append_row_to_sheet(sh, Head(novos), Head(rowOk)).calls
         + AppendCalls(append_row_to_sheet(sh, Head(novos), Head(rowOk)).sheet,
                       Tail(novos), Tail(rowOk))

\* A validation chain without the telephone check.
CadastroRejeicao_SemTelefone(nome, contato, email, estado_sel, cidades_sel, d) ==
    IF Strip(nome) = "" \/ Strip(contato) = "" \/ Strip(email) = ""
       \/ estado_sel = "" \/ cidades_sel = <<>>
    THEN "campos"
    ELSE IF ~validar_email(Strip(email)) THEN "email"
    ELSE IF nome \in Range(Coluna(d, "Distribuidor")) THEN "duplicado"
    ELSE ""

\* Which of the four rejections of lines 465-472 applies, "" when none.
CadastroRejeicao(nome, contato, email, estado_sel, cidades_sel, d) ==
    IF Strip(nome) = "" \/ Strip(contato) = "" \/ Strip(email) = ""
       \/ estado_sel = "" \/ cidades_sel = <<>>
    THEN "campos"
    ELSE IF ~validar_telefone(Strip(contato)) THEN "contato"
    ELSE IF ~validar_email(Strip(email)) THEN "email"
    ELSE IF nome \in Range(Coluna(d, "Distribuidor")) THEN "duplicado"
    ELSE ""

\* What the user submits: every well-formed form over two names and the
\* non-empty city selections, and one form for each way of being malformed.
FormOk == [nome |-> "A", contato |-> "(11) 91234-5678", email |-> "a@b.co",
           estado |-> "PR", cidades |-> <<"Londrina">>]

CadastroInputs ==
    {[FormOk EXCEPT !.nome = n, !.cidades = cs] :
        n \in {"A", "B"}, cs \in Selecoes(CidadesDe("PR")) \ {<<>>}}
    \cup {[FormOk EXCEPT !.nome = ""], [FormOk EXCEPT !.contato = ""],
          [FormOk EXCEPT !.contato = "11 91234-5678"], [FormOk EXCEPT !.email = "a@b"],
          [FormOk EXCEPT !.email = ""], [FormOk EXCEPT !.cidades = <<>>],
          [FormOk EXCEPT !.estado = "", !.cidades = <<>>]}

Cadastro ==
    /\ Idle
    /\ UNCHANGED <<filtros, mapa, chamada>>
    /\ logado /\ dfSet
    /\ EditorGate(nivel_acesso)
    /\ \E in \in CadastroInputs :
       \E rej \in {CadastroRejeicao(in.nome, in.contato, in.email, in.estado,
                                    in.cidades, df)} :
          IF rej # ""
          THEN /\ last' = [NoRun EXCEPT !.op = "create", !.error = rej, !.form = in]
               /\ UNCHANGED <<sheet, cache, dfSet, df, cookies, geocache, geoCalls>>
          ELSE /\ Len(sheet) + Len(in.cidades) <= MaxRows + 1
               /\ \E answers \in Answers(in.cidades, in.estado, geocache),
                     rowOk \in [DOMAIN in.cidades -> BOOLEAN] :
                  \* lines 474-482: build the rows
                  \E g \in {BuildRows(in.nome, in.contato, in.email, in.estado,
                                      in.cidades, answers,
                                      [cache |-> geocache, calls |-> geoCalls,
                                       novos |-> <<>>, geo |-> <<>>])} :
                  \* lines 484-488: append each row
                  \E sh \in {AppendLoop(sheet, g.novos, rowOk)} :
                     /\ geocache' = g.cache
                     /\ geoCalls' = g.calls
                     /\ IF \E i \in DOMAIN rowOk : ~rowOk[i]
                        THEN \* line 491
                             /\ sheet' = sh
                             /\ last' = [op |-> "create", success |-> FALSE,
                                         error |-> "escrita", dist |-> "", form |-> in,
                                         novos |-> g.novos, geo |-> g.geo, rowOk |-> rowOk,
                                         writes |-> AppendCalls(sheet, g.novos, rowOk),
                                         load |-> NoLoad, readError |-> FALSE, usuario |-> "", senha |-> ""]
                             /\ UNCHANGED <<cache, df>>
                        ELSE \* lines 494-495
                             \E k \in LoadCallsOn(sh) : \E r \in {refresh_local_df(sh, k)} :
                                /\ sheet' = r.sheet
                                /\ cache' = r.cache
                                /\ df' = r.df
                                /\ last' = [op |-> "create", success |-> TRUE,
                                            error |-> "", dist |-> "", form |-> in,
                                            novos |-> g.novos, geo |-> g.geo, rowOk |-> rowOk,
                                            writes |-> AppendCalls(sheet, g.novos, rowOk),
                                            load |-> k, readError |-> r.readError, usuario |-> "", senha |-> ""]
                     /\ UNCHANGED <<dfSet, cookies>>

(***************************************************************************)
(* Lista / Editar / Excluir: "Salvar Alterações" (lines 505-576).          *)
(***************************************************************************)
\* Distinct values of a DataFrame column.
Unique(d, col) == Range(Coluna(d, col))

\* Rows of d whose column col equals v, in order.
RowsWhere(d, col, v) == SelectSeq(d, LAMBDA r : r[col] = v)

\* Lines 546-557: the 1-based indices of the rows under the first whose
\* first cell, trimmed, is the trimmed dist, ascending.
RECURSIVE OccFrom(_, _, _)
OccFrom(sh, dist, idx) ==
    IF idx > Len(sh) THEN <<>>
    ELSE (IF Strip(sh[idx][1]) = Strip(dist) THEN <<idx>> ELSE <<>>)
         \o OccFrom(sh, dist, idx + 1)

\* The occurrences listed from the bottom of the sheet upwards.
occ_indices_Reversed(sh, dist) ==
    [i \in 1..Len(OccFrom(sh, dist, 2)) |->
        OccFrom(sh, dist, 2)[Len(OccFrom(sh, dist, 2)) + 1 - i]]

\* Lines 546-557: the rows under the first whose distributor cell is
\* dist_edit, both stripped, in ascending order.
occ_indices(sh, dist) == OccFrom(sh, dist, 2)

\* Lines 560-569: row i overwrites occurrence i when there is one and is
\* appended otherwise; a call that raises (rowOk[i] false) changes nothing.
RECURSIVE EditLoop(_, _, _, _, _)
EditLoop(sh, novas, occ, rowOk, i) ==
    IF i > Len(novas) THEN sh
    ELSE EditLoop(IF i <= Len(occ)
                  THEN update_sheet_row_by_index(sh, occ[i], novas[i], rowOk[i]).sheet
                  ELSE append_row_to_sheet(sh, novas[i], rowOk[i]).sheet,
                  novas, occ, rowOk, i + 1)

\* The sheet calls issued by the write loop of the edit.
RECURSIVE EditCalls(_, _, _, _, _)
EditCalls(sh, novas, occ, rowOk, i) ==
    IF i > Len(novas) THEN 0
    ELSE LET w == IF i <= Len(occ)
                  THEN update_sheet_row_by_index(sh, occ[i], novas[i], rowOk[i])
                  ELSE append_row_to_sheet(sh, novas[i], rowOk[i])
         IN  w.calls + EditCalls(w.sheet, novas, occ, rowOk, i + 1)

\* Lines 521-524.
EditarRejeicao(contato, email) ==
    IF ~validar_telefone(Strip(contato)) THEN "contato"
    ELSE IF ~validar_email(Strip(email)) THEN "email"
    ELSE ""

Max(a, b) == IF a >= b THEN a ELSE b

\* What the user submits: the contact and email shown (those of the first
\* row of dados) with any name, state and city selection, and the two
\* malformed forms.
EditarInputs(dados, estados) ==
    LET base == [nome |-> dados[1].Distribuidor, contato |-> dados[1].Contato,
                 email |-> dados[1].Email, estado |-> dados[1].Estado,
                 cidades |-> Coluna(dados, "Cidade")]
    IN  UNION {{[base EXCEPT !.nome = n, !.estado = e, !.cidades = cs] :
                    n \in {"A", "B"}, cs \in Selecoes(CidadesDe(e))} : e \in estados}
        \cup {[base EXCEPT !.contato = "11 91234-5678"], [base EXCEPT !.email = "a@b"]}

Editar ==
    /\ Idle
    /\ UNCHANGED <<filtros, mapa, chamada>>
    /\ logado /\ dfSet
    /\ EditorGate(nivel_acesso)
    /\ df # <<>>
    /\ \E dist_edit \in Unique(df, "Distribuidor") :
       \E dados \in {RowsWhere(df, "Distribuidor", dist_edit)} :
       \E in \in EditarInputs(dados, Unique(df, "Estado")) :
       \E nome_edit \in {in.nome}, contato_edit \in {in.contato}, email_edit \in {in.email},
          estado_edit \in {in.estado}, cidades_novas \in {in.cidades} :
       \E rej \in {EditarRejeicao(contato_edit, email_edit)} :
          IF rej # ""
          THEN /\ last' = [NoRun EXCEPT !.op = "edit", !.error = rej, !.dist = dist_edit,
                                         !.form = in]
               /\ UNCHANGED <<sheet, cache, dfSet, df, cookies, geocache, geoCalls>>
          ELSE \E answers \in Answers(cidades_novas, estado_edit, geocache) :
               \* lines 529-535: build the rows
               \E g \in {BuildRows(nome_edit, contato_edit, email_edit, estado_edit,
                                   cidades_novas, answers,
                                   [cache |-> geocache, calls |-> geoCalls,
                                    novos |-> <<>>, geo |-> <<>>])} :
               \E occ \in {occ_indices(sheet, dist_edit)} :
                  /\ Len(sheet) + Max(0, Len(cidades_novas) - Len(occ)) <= MaxRows + 1
                  /\ geocache' = g.cache
                  /\ geoCalls' = g.calls
                  /\ \E leu \in BOOLEAN :
                        IF ~leu
                        THEN \* col_values or row_values raised: line 576
                             /\ last' = [op |-> "edit", success |-> FALSE,
                                         error |-> "excecao", dist |-> dist_edit,
                                         form |-> in, novos |-> g.novos, geo |-> g.geo,
                                         rowOk |-> <<>>, writes |-> 0, load |-> NoLoad, readError |-> FALSE, usuario |-> "", senha |-> ""]
                             /\ UNCHANGED <<sheet, cache, df>>
                        ELSE \E rowOk \in [DOMAIN cidades_novas -> BOOLEAN] :
                             \E sh \in {EditLoop(sheet, g.novos, occ, rowOk, 1)} :
                                IF \E i \in DOMAIN rowOk : ~rowOk[i]
                                THEN \* line 571
                                     /\ sheet' = sh
                                     /\ last' = [op |-> "edit", success |-> FALSE,
                                                 error |-> "escrita", dist |-> dist_edit,
                                                 form |-> in, novos |-> g.novos,
                                                 geo |-> g.geo, rowOk |-> rowOk,
                                                 writes |-> EditCalls(sheet, g.novos, occ,
                                                                      rowOk, 1),
                                                 load |-> NoLoad, readError |-> FALSE, usuario |-> "", senha |-> ""]
                                     /\ UNCHANGED <<cache, df>>
                                ELSE \* lines 573-574
                                     \E k \in LoadCallsOn(sh) : \E r \in {refresh_local_df(sh, k)} :
                                        /\ sheet' = r.sheet
                                        /\ cache' = r.cache
                                        /\ df' = r.df
                                        /\ last' = [op |-> "edit", success |-> TRUE,
                                                    error |-> "", dist |-> dist_edit,
                                                    form |-> in, novos |-> g.novos,
                                                    geo |-> g.geo, rowOk |-> rowOk,
                                                    writes |-> EditCalls(sheet, g.novos, occ,
                                                                         rowOk, 1),
                                                    load |-> k, readError |-> r.readError, usuario |-> "", senha |-> ""]
                  /\ UNCHANGED <<dfSet, cookies>>

(***************************************************************************)
(* "Excluir Distribuidor" (lines 578-597).                                 *)
(***************************************************************************)
\* Lines 584-590: the values written back, the rows of dist_del left out.
\* (r[0].strip() is compared with dist_del as selected, untrimmed.)
DeleteValues(sh, dist_del) ==
    LET header == IF sh # <<>> THEN sh[1] ELSE COLUNAS
        rows   == IF Len(sh) > 1 THEN SubSeq(sh, 2, Len(sh)) ELSE <<>>
    IN  <<header>> \o SelectSeq(rows, LAMBDA r : ~(Strip(r[1]) = dist_del))

\* Which sheet call of the handler raises, "" when none does.
DeleteFailures == {"", "get_all_values", "clear", "update"}

\* The sheet after lines 584-593 when the call named falha raises.
DeleteSheet(sh, dist_del, falha) ==
    IF falha = "get_all_values" \/ falha = "clear" THEN sh
    ELSE IF falha = "update" THEN <<>>
    ELSE DeleteValues(sh, dist_del)

Excluir ==
    /\ Idle
    /\ logado /\ dfSet
    /\ EditorGate(nivel_acesso)
    /\ df # <<>>
    /\ \E dist_del \in Unique(df, "Distribuidor"), falha \in DeleteFailures :
       \E sh \in {DeleteSheet(sheet, dist_del, falha)} :
          IF falha # ""
          THEN \* line 597
               /\ sheet' = sh
               /\ last' = [NoRun EXCEPT !.op = "delete", !.error = "excecao",
                                         !.dist = dist_del]
               /\ UNCHANGED <<cache, df>>
          ELSE \* lines 594-595
               \E k \in LoadCallsOn(sh) : \E r \in {refresh_local_df(sh, k)} :
                  /\ sheet' = r.sheet
                  /\ cache' = r.cache
                  /\ df' = r.df
                  /\ last' = [NoRun EXCEPT !.op = "delete", !.success = TRUE,
                                            !.dist = dist_del, !.load = k,
                                            !.readError = r.readError]
    /\ UNCHANGED <<dfSet, cookies, geocache, geoCalls, filtros, mapa, chamada>>

Next ==
    \/ Rerun
    \/ Login
    \/ Logout
    \/ Render
    \/ Cadastro
    \/ Editar
    \/ Excluir

Spec == Init /\ [][Next]_vars

(***************************************************************************)
(* lat_lon_is_valid applied to a pair of values (lines 85-92).             *)
(***************************************************************************)
\* The values tried for each argument: absent, not a number, the two ends of
\* the interval with the hundredth on either side of each, and values well
\* inside and well outside.
MaxProbe == 9000
ProbeLat == {NA, NAO_NUMERICO, 0 - MaxProbe, -3501, -3500, -3499, -2290, 0, 599, 600, 601, 4000}
ProbeLon == {NA, NAO_NUMERICO, 0 - MaxProbe, -8201, -8200, -8199, -7000, -4706, -3001, -3000, -2999, 0}

InitCoord ==
    /\ sheet = <<COLUNAS>>
    /\ cache = EmptyCache
    /\ dfSet = FALSE
    /\ df = <<>>
    /\ cookies = [usuario |-> "", nivel |-> ""]
    /\ geocache = <<>>
    /\ geoCalls = [k \in GeoKeys |-> 0]
    /\ last = NoRun
    /\ FiltrosIniciais
    /\ chamada \in [lat : ProbeLat, lon : ProbeLon, feita : {FALSE}, ret : {FALSE}]

\* The call returns: its answer is kept next to its arguments.
Validar ==
    /\ ~chamada.feita
    /\ chamada' = [chamada EXCEPT !.feita = TRUE,
                                   !.ret = lat_lon_is_valid(chamada.lat, chamada.lon)]
    /\ UNCHANGED <<sheet, cache, dfSet, df, cookies, geocache, geoCalls, last, filtros, mapa>>

NextCoord == Validar

SpecCoord == InitCoord /\ [][NextCoord]_vars

(***************************************************************************)
(* Mapa: the filters of the sidebar (lines 602-664).                       *)
(***************************************************************************)
\* sorted() on names: strings compare by the code points of their characters.
CodeOrder == <<" ", "A", "B", "C">>

CodePoint(c) == CHOOSE i \in DOMAIN CodeOrder : CodeOrder[i] = c

RECURSIVE CharsLess(_, _)
CharsLess(a, b) ==
    IF b = <<>> THEN FALSE
    ELSE IF a = <<>> THEN TRUE
    ELSE IF Head(a) = Head(b) THEN CharsLess(Tail(a), Tail(b))
    ELSE CodePoint(Head(a)) < CodePoint(Head(b))

RECURSIVE sorted(_)
sorted(S) ==
    IF S = {} THEN <<>>
    ELSE LET m == CHOOSE x \in S : \A y \in S \ {x} : CharsLess(Chars(x), Chars(y))
         IN  <<m>> \o sorted(S \ {m})

\* Lines 623-627: the distributors offered, those of the state when one is
\* chosen, in sorted order.
distribuidores_opcoes(d, estado) ==
    sorted({d[i].Distribuidor : i \in {j \in DOMAIN d : estado = "" \/ d[j].Estado = estado}})

\* Line 628: the value of the multiselect, its default as long as the user
\* has not touched it, else the options the user chose.
MultiselectValues(opcoes, default) ==
    {default} \cup {sorted(S) : S \in SUBSET Range(opcoes)}

\* The selection stored as the widget returned it.
SelecionadosValidos_Tudo(escolha, opcoes) == escolha

\* Line 629: [d for d in distribuidores_selecionados if d in distribuidores_opcoes].
SelecionadosValidos(escolha, opcoes) ==
    SelectSeq(escolha, LAMBDA x : x \in Range(opcoes))

\* f"{c['nome']} - {uf}" (line 312).
CidadeUF(nome, uf) == Str(Chars(nome) \o <<" ", "-", " ">> \o Chars(uf))

\* carregar_todas_cidades() (lines 302-316): the order of the list plays no role.
carregar_todas_cidades == UNION {{CidadeUF(c, uf) : c \in CidadesDe(uf)} : uf \in Siglas}

\* str.endswith on the characters.
EndsWith(cs, suf) ==
    Len(suf) <= Len(cs) /\ SubSeq(cs, Len(cs) - Len(suf) + 1, Len(cs)) = suf

\* Lines 632-634: the cities offered by the search box.
todas_cidades(estado) ==
    IF estado = "" THEN carregar_todas_cidades
    ELSE {c \in carregar_todas_cidades : EndsWith(Chars(c), <<" ", "-", " ">> \o Chars(estado))}

\* str.split(" - ") on the characters: the pieces between the separators.
RECURSIVE SplitSep(_)
SplitSep(cs) ==
    LET at == {i \in 1..(Len(cs) - 2) : SubSeq(cs, i, i + 2) = <<" ", "-", " ">>}
    IN  IF at = {} THEN <<cs>>
        ELSE LET i == CHOOSE x \in at : \A y \in at : x <= y
             IN  <<SubSeq(cs, 1, i - 1)>> \o SplitSep(SubSeq(cs, i + 3, Len(cs)))

SplitTable == LET f == [s \in carregar_todas_cidades |-> SplitSep(Chars(s))] IN f @@ f

\* The combined filter without the distributor step's test for an empty selection.
df_filtro_SemGuarda(d, estado, selecionados) ==
    LET d1 == IF estado # "" THEN SelectSeq(d, LAMBDA r : r.Estado = estado) ELSE d
    IN  SelectSeq(d1, LAMBDA r : r.Distribuidor \in Range(selecionados))

\* Lines 647-653: the state mask, then the distributor mask, each applied
\* only when its filter is set.
df_filtro(d, estado, selecionados) ==
    LET d1 == IF estado # "" THEN SelectSeq(d, LAMBDA r : r.Estado = estado) ELSE d
    IN  IF selecionados # <<>>
        THEN SelectSeq(d1, LAMBDA r : r.Distribuidor \in Range(selecionados))
        ELSE d1

\* The city search comparing the columns as they are written.
df_cidade_CaseSensitive(d, busca) ==
    LET parts == SplitTable[busca]
    IN  IF Len(parts) # 2 THEN <<>>
        ELSE SelectSeq(d, LAMBDA r : /\ r.Cidade = Str(parts[1])
                                     /\ r.Estado = Str(parts[2]))

\* Lines 657-664: the query is split into city and state; unpacking anything
\* but two pieces raises, and the except gives the empty frame.
df_cidade(d, busca) ==
    LET parts == SplitTable[busca]
    IN  IF Len(parts) # 2 THEN <<>>
        ELSE SelectSeq(d, LAMBDA r : /\ Lower(r.Cidade) = Lower(Str(parts[1]))
                                     /\ Upper(r.Estado) = Upper(Str(parts[2])))

(***************************************************************************)
(* The view state (lines 666-757) and criar_mapa (lines 327-379).          *)
(* Coordinates are hundredths of a degree; a mean is the exact fraction    *)
(* [num, den] of hundredths, and so are the fixed centres.                 *)
(***************************************************************************)
Rat(n, d) == [num |-> n, den |-> d]

RECURSIVE SeqSum(_)
SeqSum(q) == IF q = <<>> THEN 0 ELSE Head(q) + SeqSum(Tail(q))

SeqMax(q) == CHOOSE x \in Range(q) : \A y \in Range(q) : y <= x
SeqMin(q) == CHOOSE x \in Range(q) : \A y \in Range(q) : x <= y

\* Series.mean().
Mean(q) == Rat(SeqSum(q), Len(q))

\* Lines 673-676 (and 708-711, 735-738): each column on its own, made
\* numeric, its absent values dropped, then cut to its interval.
lats(d) ==
    SelectSeq(Coluna(d, "Latitude"), LAMBDA v : v # NA /\ v >= LAT_MIN /\ v <= LAT_MAX)
lons(d) ==
    SelectSeq(Coluna(d, "Longitude"), LAMBDA v : v # NA /\ v >= LON_MIN /\ v <= LON_MAX)

\* {"center": [-14.2350, -51.9253], "zoom": 5}
VistaBrasil == [center |-> <<Rat(-142350, 100), Rat(-519253, 100)>>, zoom |-> 5]

\* STATE_CENTROIDS.get(estado, national default) for the states of the model
\* (lines 212-240, 691, 729, 754).
STATE_CENTROIDS(estado) ==
    IF estado = "AC" THEN [center |-> <<Rat(-877, 1), Rat(-7055, 1)>>, zoom |-> 6]
    ELSE IF estado = "PR" THEN [center |-> <<Rat(-2489, 1), Rat(-5155, 1)>>, zoom |-> 7]
    ELSE VistaBrasil

\* max - min, or the stand-in when the two are equal (lines 680-681, 714-715).
SpanOf(q, igual) == IF SeqMax(q) # SeqMin(q) THEN SeqMax(q) - SeqMin(q) ELSE igual

\* Lines 683-690 and 745-752: the zoom steps of the state view.
ZoomEstado(span) ==
    IF span < 20 THEN 11 ELSE IF span < 100 THEN 9 ELSE IF span < 300 THEN 8 ELSE 6

\* Lines 717-724: the zoom steps of the city view.
ZoomCidade(span) ==
    IF span < 2 THEN 13 ELSE IF span < 20 THEN 11 ELSE IF span < 100 THEN 9 ELSE 8

\* Lines 672-691 and 734-754: the view of a state, from the rows of the
\* session's DataFrame in that state, or its fixed centre when they hold no
\* latitude or no longitude.
VistaEstado(d, estado) ==
    LET df_state == SelectSeq(d, LAMBDA r : r.Estado = estado)
        la == lats(df_state)
        lo == lons(df_state)
    IN  IF la # <<>> /\ lo # <<>>
        THEN [center |-> <<Mean(la), Mean(lo)>>,
              zoom |-> ZoomEstado(Max(SpanOf(la, 10), SpanOf(lo, 10)))]
        ELSE STATE_CENTROIDS(estado)

\* Lines 707-727: the view of the city's rows that are drawn.
VistaCidade(df_cidade_map, estado) ==
    LET la == lats(df_cidade_map)
        lo == lons(df_cidade_map)
    IN  IF la # <<>> /\ lo # <<>>
        THEN [center |-> <<Mean(la), Mean(lo)>>,
              zoom |-> ZoomCidade(Max(SpanOf(la, 2), SpanOf(lo, 2)))]
        ELSE STATE_CENTROIDS(estado)

\* Lines 344-364: the rows of d that get a CircleMarker.
Marcadores(d, filtro_distribuidores) ==
    SelectSeq(d, LAMBDA r :
        /\ filtro_distribuidores = <<>> \/ r.Distribuidor \in Range(filtro_distribuidores)
        /\ r.Latitude # NA /\ r.Longitude # NA
        /\ LAT_MIN <= r.Latitude /\ r.Latitude <= LAT_MAX
        /\ LON_MIN <= r.Longitude /\ r.Longitude <= LON_MAX)

\* criar_mapa(df, filtro_distribuidores, zoom_to_state): zoom_to_state is
\* <<>> for None, and then the map has the default centre and zoom.
criar_mapa(d, filtro_distribuidores, zoom_to_state) ==
    LET v == IF zoom_to_state = <<>> THEN VistaBrasil ELSE zoom_to_state
    IN  [location |-> v.center, zoom_start |-> v.zoom,
         markers |-> Marcadores(d, filtro_distribuidores)]

\* Lines 655-757: the map drawn for the session's DataFrame d, the filtered
\* frame filtrado and the three session values.
MapaDesenhado(d, filtrado, estado, selecionados, busca) ==
    IF busca # ""
    THEN LET dc == df_cidade(d, busca)
         IN  IF dc = <<>>
             THEN criar_mapa(<<>>, <<>>,
                             IF estado # "" THEN VistaEstado(d, estado) ELSE VistaBrasil)
             ELSE LET df_cidade_map ==
                          IF selecionados # <<>>
                          THEN SelectSeq(dc, LAMBDA r : r.Distribuidor \in Range(selecionados))
                          ELSE dc
                  IN  criar_mapa(df_cidade_map, selecionados,
                                 VistaCidade(df_cidade_map, estado))
    ELSE criar_mapa(filtrado, selecionados,
                    IF estado # "" THEN VistaEstado(d, estado) ELSE <<>>)

\* The city search that follows the selectbox, the empty option included.
CidadeBuscaApos_Segue(atual, cidade_selecionada_sidebar) == cidade_selecionada_sidebar

\* Lines 637-638: the session's city search after the selectbox; the empty
\* option leaves it as it was.
CidadeBuscaApos(atual, cidade_selecionada_sidebar) ==
    IF cidade_selecionada_sidebar # "" THEN cidade_selecionada_sidebar ELSE atual

\* The map page of a logged-in session: the three widgets, the clear button,
\* the two frames computed from the session's DataFrame and the map drawn.
Mapa ==
    /\ Idle
    /\ logado /\ dfSet
    /\ \E estado_w \in {""} \cup Siglas :
       \E opcoes \in {distribuidores_opcoes(df, estado_w)} :
       \E escolha \in MultiselectValues(opcoes, distribuidores_selecionados) :
       \E cidade_selecionada_sidebar \in {""} \cup todas_cidades(estado_w) :
       \E limpar \in BOOLEAN :
       \E ef \in {IF limpar THEN "" ELSE estado_w} :
       \E ds \in {IF limpar THEN <<>> ELSE SelecionadosValidos(escolha, opcoes)} :
       \E cb \in {IF limpar THEN ""
                  ELSE CidadeBuscaApos(cidade_busca, cidade_selecionada_sidebar)} :
          /\ estado_filtro' = ef
          /\ distribuidores_selecionados' = ds
          /\ cidade_busca' = cb
          /\ \E m \in {MapaDesenhado(df, df_filtro(df, ef, ds), ef, ds, cb)} :
                mapa' = [estado |-> estado_w, opcoes |-> opcoes, escolha |-> escolha,
                         cidade |-> cidade_selecionada_sidebar, limpar |-> limpar,
                         df_filtro |-> df_filtro(df, ef, ds),
                         df_cidade |-> IF cb # "" THEN df_cidade(df, cb) ELSE <<>>,
                         location |-> m.location, zoom_start |-> m.zoom_start,
                         markers |-> m.markers]
          /\ last' = [NoRun EXCEPT !.op = "mapa"]
    /\ UNCHANGED <<sheet, cache, dfSet, df, cookies, geocache, geoCalls, chamada>>

\* The sheet the map is studied on: two rows of A, a row of B typed by hand
\* in lower case, a row of C in another state.
RowCuritibaA == <<"A", "(11) 91234-5678", "a@b.co", "PR", "Curitiba", "-23.5", "-47.06">>
RowLowerB    == <<"B", "(11) 91234-5678", "a@b.co", "pr", "curitiba", "-23.5", "-47.06">>
RowAcreC     == <<"C", "(11) 91234-5678", "a@b.co", "AC", "Rio Branco", "", "">>
\* B in the same state as A, and B with a latitude and no longitude.
RowCuritibaB == <<"B", "(11) 91234-5678", "a@b.co", "PR", "Curitiba", "-23.5", "-47.06">>
RowMeioB     == <<"B", "(11) 91234-5678", "a@b.co", "PR", "Curitiba", "-23.5", "">>

InitMapaSheets ==
    {<<COLUNAS, RowLondrinaA, RowLowerB, RowAcreC, RowCuritibaA>>,
     <<COLUNAS, RowLondrinaA, RowAcreC>>,
     <<COLUNAS, RowLondrinaA, RowCuritibaB>>,
     <<COLUNAS, RowLondrinaA, RowMeioB>>}

InitMapa ==
    /\ sheet \in InitMapaSheets
    /\ cache = EmptyCache
    /\ dfSet = FALSE
    /\ df = <<>>
    /\ cookies = [usuario |-> "", nivel |-> ""]
    /\ geocache = <<>>
    /\ geoCalls = [k \in GeoKeys |-> 0]
    /\ last = NoRun
    /\ FiltrosIniciais
    /\ chamada = NoChamada

NextMapa ==
    \/ Rerun
    \/ Login
    \/ Render
    \/ Excluir
    \/ Mapa

SpecMapa == InitMapa /\ [][NextMapa]_vars

(***************************************************************************)
(* find_row_index applied to a sheet (lines 154-175).                      *)
(***************************************************************************)
\* The scan comparing city and state in the case they are written in.
RECURSIVE FindFrom_CaseSensitive(_, _, _, _, _, _)
FindFrom_CaseSensitive(sh, distribuidor, cidade, estado, k, idx) ==
    IF idx > Len(sh) THEN 0
    ELSE IF Strip(sh[idx][1]) = Strip(distribuidor)
    THEN IF idx \in k.row THEN 0
         ELSE IF Strip(sh[idx][5]) = Strip(cidade) /\ Strip(sh[idx][4]) = Strip(estado)
         THEN idx
         ELSE FindFrom_CaseSensitive(sh, distribuidor, cidade, estado, k, idx + 1)
    ELSE FindFrom_CaseSensitive(sh, distribuidor, cidade, estado, k, idx + 1)

\* The scan of lines 162-172 from row idx on: a row whose first cell is the
\* distributor (both stripped) is fetched with row_values, which raises for
\* the rows of k.row, and compared on city and state; 0 stands for None.
RECURSIVE FindFrom(_, _, _, _, _, _)
FindFrom(sh, distribuidor, cidade, estado, k, idx) ==
    IF idx > Len(sh) THEN 0
    ELSE IF Strip(sh[idx][1]) = Strip(distribuidor)
    THEN IF idx \in k.row THEN 0
         ELSE IF /\ Lower(Strip(sh[idx][5])) = Lower(Strip(cidade))
                 /\ Upper(Strip(sh[idx][4])) = Upper(Strip(estado))
         THEN idx
         ELSE FindFrom(sh, distribuidor, cidade, estado, k, idx + 1)
    ELSE FindFrom(sh, distribuidor, cidade, estado, k, idx + 1)

\* Lines 157-175: col_values(1) raises when ~k.col; the bare except answers
\* None; the rows under the first are scanned in order.
find_row_index(sh, distribuidor, cidade, estado, k) ==
    IF ~k.col THEN 0 ELSE FindFrom(sh, distribuidor, cidade, estado, k, 2)

\* A row whose name and city were typed with a trailing blank.
RowPadA == <<"A ", "(11) 91234-5678", "a@b.co", "PR", "Curitiba ", "-23.5", "-47.06">>

\* The rows a studied sheet is made of, and the sheets: with and without
\* the header, up to MaxRows rows under the first.
FindRows == {RowLondrinaA, RowCuritibaA, RowLowerB, RowPadA}

RECURSIVE SeqsUpTo(_, _)
SeqsUpTo(S, n) ==
    IF n = 0 THEN {<<>>}
    ELSE SeqsUpTo(S, n - 1) \cup {Append(q, x) : q \in SeqsUpTo(S, n - 1), x \in S}

FindSheets ==
    {<<>>} \cup {<<h>> \o q : h \in {COLUNAS, RowLondrinaA}, q \in SeqsUpTo(FindRows, MaxRows)}

\* The outcomes of the sheet calls: whether col_values returns, and the rows
\* for which row_values raises.
FindCalls == [col : BOOLEAN, row : SUBSET (2..(MaxRows + 1))]

InitFind ==
    /\ sheet \in FindSheets
    /\ cache = EmptyCache
    /\ dfSet = FALSE
    /\ df = <<>>
    /\ cookies = [usuario |-> "", nivel |-> ""]
    /\ geocache = <<>>
    /\ geoCalls = [k \in GeoKeys |-> 0]
    /\ last = NoRun
    /\ FiltrosIniciais
    /\ chamada \in [distribuidor : {"A", "A ", "B"},
                     cidade : {"Curitiba", "curitiba", "Londrina"},
                     estado : {"PR", "pr"},
                     k : FindCalls, feita : {FALSE}, ret : {0}]

\* The call returns: its answer is kept next to its arguments.
Procurar ==
    /\ ~chamada.feita
    /\ chamada' = [chamada EXCEPT
                      !.feita = TRUE,
                      !.ret = find_row_index(sheet, chamada.distribuidor, chamada.cidade,
                                             chamada.estado, chamada.k)]
    /\ UNCHANGED <<sheet, cache, dfSet, df, cookies, geocache, geoCalls, last, filtros, mapa>>

NextFind == Procurar

SpecFind == InitFind /\ [][NextFind]_vars

(***************************************************************************)
(* Properties.                                                             *)
(***************************************************************************)
\* The frame carregar_dados() builds from sheet sh when its read returns.
FrameOf(sh) == BuildDf(get_all_records(sh))

\* The outcomes of a carregar_dados() run whose read returns and that has
\* nothing to restore.
ReadOnly == [read |-> TRUE, clear |-> FALSE, upd |-> FALSE]

\* A create form that passes the checks on required fields, phone and email.
FormValid(f) ==
    /\ Strip(f.nome) # "" /\ Strip(f.contato) # "" /\ Strip(f.email) # ""
    /\ f.estado # "" /\ f.cidades # <<>>
    /\ validar_telefone(Strip(f.contato))
    /\ validar_email(Strip(f.email))

\* The rows of sh under the first whose first cell, trimmed, is not dist.
RowsOfOthers(sh, dist) ==
    SelectSeq(DataRows(sh), LAMBDA r : Strip(r[1]) # dist)

\* Some row of sh under the first holds cidade/estado for a distributor
\* other than nome.
HeldByOther(sh, cidade, estado, nome) ==
    \E i \in 2..Len(sh) : sh[i][5] = cidade /\ sh[i][4] = estado /\ sh[i][1] # nome

\* A loaded record with a coherent coordinate pair: both absent, or both
\* present and inside the bounding box.
PairOk(r) ==
    \/ r.Latitude = NA /\ r.Longitude = NA
    \/ /\ r.Latitude # NA /\ r.Longitude # NA
       /\ LAT_MIN <= r.Latitude /\ r.Latitude <= LAT_MAX
       /\ LON_MIN <= r.Longitude /\ r.Longitude <= LON_MAX

\* The cells of the row for record r when it is written without coordinates.
CellsWithoutCoords(r) ==
    <<r.Distribuidor, r.Contato, r.Email, r.Estado, r.Cidade, "", "">>

\* C1: read-your-writes.  A create, edit or delete run that changed the sheet
\* (also one in which only some row writes returned) leaves
\* st.session_state.df, and the result of the next carregar_dados(), equal to
\* the frame of the sheet's current rows.  (Runs whose reload could not read
\* the sheet are left out: there the read error is what is shown.)
C1_ReadYourWrites ==
    [][(/\ last'.op \in {"create", "edit", "delete"}
        /\ sheet' # sheet
        /\ ~(last'.success /\ ~last'.load.read))
       => /\ df' = FrameOf(sheet')
          /\ carregar_dados(sheet', cache', ReadOnly).df = FrameOf(sheet')]_vars

\* C2: a delete of distributor D, whatever its outcome, keeps in the sheet
\* every row of the sheet whose first cell is another distributor.
C2_DeleteKeepsOthers ==
    [][last'.op = "delete"
       => \A i \in 2..Len(sheet) :
             Strip(sheet[i][1]) # last'.dist => sheet[i] \in Range(sheet')]_vars

\* C3: after a delete of D either success is shown and the sheet is the
\* previous first row followed by the previous rows of the other
\* distributors in their order, or an error is shown and no success.
C3_DeleteAtomic ==
    [][(last'.op = "delete" /\ sheet # <<>>)
       => \/ /\ last'.success /\ last'.error = ""
             /\ sheet' = <<sheet[1]>> \o RowsOfOthers(sheet, last'.dist)
          \/ last'.error # "" /\ ~last'.success]_vars

\* C4: a create whose form is well-formed and selects a non-capital city that
\* the sheet holds for another distributor is rejected (as a conflict, or as
\* a duplicate name) and leaves the sheet as it was.  (Stated for the runs in
\* which no row write raises.)
C4_OnePerNonCapital ==
    [][(/\ last'.op = "create"
        /\ FormValid(last'.form)
        /\ \A i \in DOMAIN last'.rowOk : last'.rowOk[i]
        /\ \E i \in DOMAIN last'.form.cidades :
              /\ ~cidade_eh_capital(last'.form.cidades[i], last'.form.estado)
              /\ HeldByOther(sheet, last'.form.cidades[i], last'.form.estado,
                             last'.form.nome))
       => /\ last'.error \in {"conflito", "duplicado"}
          /\ sheet' = sheet]_vars

\* C5: a create whose form is well-formed and whose name is the first cell of
\* a row of the sheet is rejected as a duplicate and leaves the sheet as it
\* was.  (Stated for the runs in which no row write raises.)
C5_UniqueName ==
    [][(/\ last'.op = "create"
        /\ FormValid(last'.form)
        /\ \A i \in DOMAIN last'.rowOk : last'.rowOk[i]
        /\ \E i \in 2..Len(sheet) : sheet[i][1] = last'.form.nome)
       => /\ last'.error = "duplicado"
          /\ sheet' = sheet]_vars

\* C6: a create with an empty required field, a malformed phone or a
\* malformed email, and an edit with a malformed phone or email, shows an
\* error and changes neither the sheet, nor the geocoder (no lookup), nor
\* st.session_state.df, nor the read cache.
C6_ValidationNoEffects ==
    [][(\/ last'.op = "create" /\ ~FormValid(last'.form)
        \/ /\ last'.op = "edit"
           /\ \/ ~validar_telefone(Strip(last'.form.contato))
              \/ ~validar_email(Strip(last'.form.email)))
       => /\ last'.error \in {"campos", "contato", "email"} /\ ~last'.success
          /\ sheet' = sheet
          /\ geoCalls' = geoCalls /\ geocache' = geocache
          /\ df' = df /\ cache' = cache]_vars

C6_Witness ==
    /\ last.op = "create" /\ last.error = "contato"
    /\ last.form.contato = "11 91234-5678"
    /\ Len(sheet) > 1

\* C7 as stated: in a session whose level is not "editor" no step changes
\* the sheet.
C7_NoSheetChange ==
    [][nivel_acesso # "editor" => sheet' = sheet]_vars

\* C7 amended: in a session whose level is not "editor" no step appends,
\* changes or removes a row under the sheet's first row; what such a session
\* can still write is the clear and header rewrite of carregar_dados on a
\* sheet without records.
C7_NoRecordChange ==
    [][nivel_acesso # "editor"
       => /\ DataRows(sheet') = DataRows(sheet)
          /\ (sheet' # sheet => get_all_records(sheet) = <<>> /\ last'.load.clear)]_vars

C7_Witness ==
    /\ nivel_acesso = "viewer"
    /\ last.op = "render" /\ last.load.clear
    /\ sheet = <<>>

\* C8: every record of a loaded frame (st.session_state.df, the cached
\* result of carregar_dados) has both coordinates absent, or both present and
\* inside the bounding box.
C8_PairInvariant ==
    /\ \A i \in DOMAIN df : PairOk(df[i])
    /\ \A i \in DOMAIN cache.val : PairOk(cache.val[i])

\* C9: the service is called at most once per key; an entry of the geocoder's
\* cache never changes; a resolve answered by the cache builds its row from
\* the cached outcome, whatever the service would answer now.
C9_OneLookupPerKey ==
    [][/\ \A k \in GeoKeys : geoCalls'[k] <= 1
       /\ \A k \in DOMAIN geocache : k \in DOMAIN geocache' /\ geocache'[k] = geocache[k]
       /\ \A i \in DOMAIN last'.geo :
             LET key == GeoKey(last'.novos[i].Cidade, last'.novos[i].Estado)
             IN  /\ last'.geo[i] = "hit" <=> key \in DOMAIN geocache
                 /\ key \in DOMAIN geocache =>
                       <<last'.novos[i].Latitude, last'.novos[i].Longitude>> = geocache[key]]_vars

C9_Witness ==
    /\ last.op \in {"create", "edit"}
    /\ \E i \in DOMAIN last.geo :
          /\ last.geo[i] = "hit"
          /\ geocache[GeoKey(last.novos[i].Cidade, last.novos[i].Estado)] = Absent
          /\ last.novos[i].Latitude = NA
          /\ geoCalls[GeoKey(last.novos[i].Cidade, last.novos[i].Estado)] = 1

RowsOf(sh, dist) ==
    SelectSeq(DataRows(sh), LAMBDA r : Strip(r[1]) = dist)

\* C12: after an edit of distributor D that shows success (and whose reload
\* did not clear the sheet), the sheet holds the rows of the other
\* distributors and one row per selected city, every one of them written by
\* this edit, and none of D's previous rows is left unless it equals a row
\* written by this edit.
C12_EditReplacesRows ==
    [][(last'.op = "edit" /\ last'.success /\ ~last'.load.clear)
       => /\ \A j \in DOMAIN last'.novos : RowValues(last'.novos[j]) \in Range(sheet')
          /\ Len(DataRows(sheet')) =
                Len(RowsOfOthers(sheet, last'.dist)) + Len(last'.novos)
          /\ \A i \in 2..Len(sheet') :
                sheet'[i] \in Range(RowsOf(sheet, last'.dist))
                => \E j \in DOMAIN last'.novos : sheet'[i] = RowValues(last'.novos[j])]_vars

\* C13: a create or edit in which at least one row write raises shows the
\* write error and no success, and every row whose write returned, before or
\* after a failing one, is in the sheet.
C13_PartialFailureSurfaced ==
    [][(/\ last'.op \in {"create", "edit"}
        /\ \E i \in DOMAIN last'.rowOk : ~last'.rowOk[i])
       => /\ last'.error = "escrita" /\ ~last'.success
          /\ \A i \in DOMAIN last'.rowOk :
                last'.rowOk[i] => RowValues(last'.novos[i]) \in Range(sheet')]_vars

C13_Witness ==
    /\ last.op = "create" /\ last.error = "escrita" /\ ~last.success
    /\ last.rowOk = <<FALSE, TRUE>>
    /\ RowValues(last.novos[2]) \in Range(sheet)
    /\ RowValues(last.novos[1]) \notin Range(sheet)

\* The cells of the rows of novos whose write returned, in order.
RECURSIVE WrittenRows(_, _)
WrittenRows(novos, rowOk) ==
    IF novos = <<>> THEN <<>>
    ELSE (IF Head(rowOk) THEN <<RowValues(Head(novos))>> ELSE <<>>)
         \o WrittenRows(Tail(novos), Tail(rowOk))

\* The sheet an edit's write loop must leave: occurrence i of the old name
\* overwritten by row i when its write returned and untouched when it
\* raised, every other row untouched, and the surplus rows whose write
\* returned appended in order.
ExpectedAfterEdit(sh, occ, novas, rowOk) ==
    LET n == IF Len(occ) < Len(novas) THEN Len(occ) ELSE Len(novas)
    IN  [j \in 1..Len(sh) |->
            IF \E i \in 1..n : occ[i] = j /\ rowOk[i]
            THEN RowValues(novas[CHOOSE i \in 1..n : occ[i] = j])
            ELSE sh[j]]
        \o WrittenRows(SubSeq(novas, n + 1, Len(novas)), SubSeq(rowOk, n + 1, Len(novas)))

\* C14: a row write whose sheet call raises is reported (the run shows the
\* write error), changes no row and is not repeated; a row write that
\* returns adds exactly its row (append) or overwrites exactly the addressed
\* row (update).  Per run: one sheet call per row, and the sheet after the
\* loop is the sheet before it with exactly the returned writes applied.
C14_SingleRowWrite ==
    [][(/\ last'.op \in {"create", "edit"}
        /\ last'.error \in {"", "escrita"}
        /\ ~last'.load.clear)
       => /\ last'.writes = Len(last'.novos)
          /\ Len(last'.rowOk) = Len(last'.novos)
          /\ last'.error = "escrita" <=> \E i \in DOMAIN last'.rowOk : ~last'.rowOk[i]
          /\ last'.op = "create"
             => sheet' = sheet \o WrittenRows(last'.novos, last'.rowOk)
          /\ last'.op = "edit"
             => sheet' = ExpectedAfterEdit(sheet, occ_indices(sheet, last'.dist),
                                           last'.novos, last'.rowOk)]_vars

C14_Witness ==
    /\ last.op = "edit" /\ last.error = "escrita"
    /\ last.rowOk = <<FALSE, TRUE>>
    /\ last.writes = 2
    /\ Len(sheet) = 3

\* C15: a run of carregar_dados() whose read of the sheet raises shows the
\* read error, writes nothing to the sheet and returns the empty record set,
\* which becomes the cached result and, where the run stores it, the
\* session's frame; the run that called it goes on (a delete or create that
\* reloads still shows its success).
C15_ReadFailureDegrades ==
    [][last'.readError
       => /\ ~last'.load.clear /\ ~last'.load.upd
          /\ df' = <<>> /\ dfSet'
          /\ cache' = [valid |-> TRUE, val |-> <<>>]
          /\ last'.op = "render" => sheet' = sheet
          /\ last'.op = "delete" => last'.success /\ sheet' = DeleteValues(sheet, last'.dist)
          /\ last'.op = "create"
             => last'.success /\ sheet' = sheet \o WrittenRows(last'.novos, last'.rowOk)]_vars

C15_Witness ==
    /\ last.op = "render" /\ last.readError
    /\ Len(sheet) = 3
    /\ df = <<>>

\* C16: a page run whose carregar_dados() reads a sheet without data rows
\* returns the empty record set and leaves the sheet holding exactly the
\* header row, whichever of its clear and update calls raised.
C16_HeaderRestored ==
    [][(last'.op = "render" /\ last'.load.read /\ get_all_records(sheet) = <<>>)
       => /\ df' = <<>>
          /\ sheet' = <<COLUNAS>>]_vars

\* C17: lat_lon_is_valid answers True exactly when both values are present
\* numbers with -35.0 <= lat <= 6.0 and -82.0 <= lon <= -30.0 (hundredths:
\* -3500..600 and -8200..-3000); the four end values are valid, a pair with an
\* absent, non-numeric or outside value is invalid, and every call returns a
\* boolean.
C17_ValidExactlyInBox ==
    chamada.feita
    => /\ chamada.ret \in BOOLEAN
       /\ chamada.ret
          <=> /\ chamada.lat \notin {NA, NAO_NUMERICO}
              /\ chamada.lon \notin {NA, NAO_NUMERICO}
              /\ -3500 <= chamada.lat /\ chamada.lat <= 600
              /\ -8200 <= chamada.lon /\ chamada.lon <= -3000
       /\ (chamada.lat \in {-3500, 600} /\ chamada.lon \in {-8200, -3000}) => chamada.ret
       /\ (chamada.lat \in {-3501, 601, NA} \/ chamada.lon \in {-8201, -2999, NA})
          => ~chamada.ret

C17_Witness ==
    /\ chamada.feita
    /\ chamada.lat = 600 /\ chamada.lon = -8200
    /\ chamada.ret

\* a is b with some of its rows left out: same rows, same order, none twice.
RECURSIVE IsSubsequence(_, _)
IsSubsequence(a, b) ==
    IF a = <<>> THEN TRUE
    ELSE IF b = <<>> THEN FALSE
    ELSE IF Head(a) = Head(b) THEN IsSubsequence(Tail(a), Tail(b))
    ELSE IsSubsequence(a, Tail(b))

\* C18: on every map render the filtered view is a fixed point of the filter
\* under the same state and distributor selection; with no state and no
\* distributor selected it is the session's DataFrame, row for row; and it
\* always is the DataFrame with rows left out, none moved and none repeated.
C18_FilterIdempotent ==
    last.op = "mapa"
    => /\ df_filtro(mapa.df_filtro, estado_filtro, distribuidores_selecionados)
             = mapa.df_filtro
       /\ (estado_filtro = "" /\ distribuidores_selecionados = <<>>) => mapa.df_filtro = df
       /\ IsSubsequence(mapa.df_filtro, df)
       /\ \A j \in DOMAIN df :
             (/\ estado_filtro = "" \/ df[j].Estado = estado_filtro
              /\ distribuidores_selecionados = <<>>
                 \/ df[j].Distribuidor \in Range(distribuidores_selecionados))
             <=> df[j] \in Range(mapa.df_filtro)

C18_Witness ==
    /\ last.op = "mapa"
    /\ estado_filtro = "PR" /\ distribuidores_selecionados = <<"A">>
    /\ Len(df) = 4
    /\ Len(mapa.df_filtro) = 2

\* Two texts that differ at most in the case of their letters.
EqNoCase(a, b) ==
    /\ Len(Chars(a)) = Len(Chars(b))
    /\ \A i \in DOMAIN Chars(a) : LowerChar(Chars(a)[i]) = LowerChar(Chars(b)[i])

\* C19: on every map render with a city query "city - UF" active, the matched
\* records are the rows of the session's DataFrame, in its order, whose city
\* is that city and whose state is that UF up to letter case; the state
\* filter and the distributor selection play no part.
C19_CitySearchIndependent ==
    (last.op = "mapa" /\ cidade_busca # "")
    => \E uf \in Siglas : \E c \in CidadesDe(uf) :
          /\ cidade_busca = CidadeUF(c, uf)
          /\ mapa.df_cidade
                = SelectSeq(df, LAMBDA r : EqNoCase(r.Cidade, c) /\ EqNoCase(r.Estado, uf))

\* The query is for Curitiba - PR while the state filter is AC and C is the
\* selected distributor: both rows in Curitiba are matched, B's in lower case.
C19_Witness ==
    /\ last.op = "mapa"
    /\ cidade_busca = "Curitiba - PR"
    /\ estado_filtro = "AC" /\ distribuidores_selecionados = <<"C">>
    /\ Len(mapa.df_cidade) = 2
    /\ \E i \in DOMAIN mapa.df_cidade : mapa.df_cidade[i].Cidade = "curitiba"

\* C20: after the widgets of every map render, each selected distributor is
\* one of the distributors offered for the state chosen in that render, that
\* is, the name of a row of the session's DataFrame in that state (of any row
\* when no state is chosen): a selection made before the state filter
\* changed or before the distributor was deleted is not kept.
C20_NoStaleSelection ==
    last.op = "mapa"
    => \A x \in Range(distribuidores_selecionados) :
          /\ x \in Range(mapa.opcoes)
          /\ \E j \in DOMAIN df :
                /\ df[j].Distribuidor = x
                /\ mapa.estado = "" \/ df[j].Estado = mapa.estado

\* The multiselect came back with a name that is no longer offered, and the
\* session keeps only the names that are.
C20_Witness ==
    /\ last.op = "mapa"
    /\ mapa.estado = "PR"
    /\ mapa.escolha = <<"A", "B">>
    /\ mapa.opcoes = <<"A">>
    /\ distribuidores_selecionados = <<"A">>

\* Two fractions that are the same number (denominators are positive).
RatEq(a, b) == a.num * b.den = b.num * a.den

\* The centre <<lat, lon>> equals the point (la, lo) given in hundredths.
CentreIs(c, la, lo) == RatEq(c[1], la) /\ RatEq(c[2], lo)

\* C21: on a map render whose city query matches no record, no marker is
\* drawn and the view is the fixed centre of the selected state (PR:
\* [-24.89, -51.55] zoom 7, AC: [-8.77, -70.55] zoom 6), or the national
\* centre [-14.2350, -51.9253] at zoom 5 when no state is selected.
C21_EmptyCityFallsBack ==
    (last.op = "mapa" /\ cidade_busca # "" /\ mapa.df_cidade = <<>>)
    => /\ mapa.markers = <<>>
       /\ estado_filtro = ""
          => /\ CentreIs(mapa.location, Rat(-142350, 100), Rat(-519253, 100))
             /\ mapa.zoom_start = 5
       /\ estado_filtro = "PR"
          => /\ CentreIs(mapa.location, Rat(-2489, 1), Rat(-5155, 1))
             /\ mapa.zoom_start = 7
       /\ estado_filtro = "AC"
          => /\ CentreIs(mapa.location, Rat(-877, 1), Rat(-7055, 1))
             /\ mapa.zoom_start = 6

\* The rows under the first whose distributor cell is the argument, both trimmed.
FindCandidates == {i \in 2..Len(sheet) : Strip(sheet[i][1]) = Strip(chamada.distribuidor)}

\* Of those, the rows whose city and state are the arguments up to letter case.
FindMatchesExact ==
    {i \in FindCandidates : /\ EqNoCase(sheet[i][5], chamada.cidade)
                            /\ EqNoCase(sheet[i][4], chamada.estado)}

\* The same with city and state trimmed on both sides first.
FindMatchesTrimmed ==
    {i \in FindCandidates : /\ EqNoCase(Strip(sheet[i][5]), Strip(chamada.cidade))
                            /\ EqNoCase(Strip(sheet[i][4]), Strip(chamada.estado))}

SetMin(S) == CHOOSE x \in S : \A y \in S : x <= y

\* The answer find_row_index owes for the matching rows M: None (0) when
\* col_values raised, when row_values raised for a candidate row not after
\* the first matching one, or when no row matches; else the smallest
\* matching row, which is never row 1.
FindAnswer(M) ==
    LET upto == IF M = {} THEN Len(sheet) ELSE SetMin(M)
    IN  IF ~chamada.k.col THEN 0
        ELSE IF \E i \in FindCandidates \cap chamada.k.row : i <= upto THEN 0
        ELSE IF M = {} THEN 0
        ELSE SetMin(M)

\* C22 as stated: the answer is the smallest row under the header whose
\* distributor is the argument after trimming and whose city and state are
\* the arguments case-insensitively, None when there is none or a sheet call
\* failed; the sheet is not written.
C22_FindExact ==
    [][chamada'.feita => (chamada'.ret = FindAnswer(FindMatchesExact) /\ sheet' = sheet)]_vars

\* C22 amended: as above, with city and state compared after trimming too.
C22_FindTrimmed ==
    [][chamada'.feita
       => /\ chamada'.ret = FindAnswer(FindMatchesTrimmed)
          /\ chamada'.ret # 1
          /\ sheet' = sheet]_vars

\* The second of two rows of A is the answer: the first is in another city.
C22_Witness ==
    /\ chamada.feita
    /\ chamada.ret = 3
    /\ chamada.distribuidor = "A" /\ chamada.cidade = "curitiba" /\ chamada.estado = "pr"
    /\ sheet = <<COLUNAS, RowLondrinaA, RowCuritibaA>>

\* The rows of d whose pair of coordinates passes lat_lon_is_valid.
ValidRows(d) == SelectSeq(d, LAMBDA r : lat_lon_is_valid(r.Latitude, r.Longitude))

\* The rows the city view is drawn for: the matched rows, of the selected
\* distributors when some are selected.
CityRows ==
    IF distribuidores_selecionados = <<>> THEN mapa.df_cidade
    ELSE SelectSeq(mapa.df_cidade,
                   LAMBDA r : r.Distribuidor \in Range(distribuidores_selecionados))

\* C23: on a map render whose city query matches records, when the valid
\* coordinates of the rows drawn are a non-empty set whose latitudes and
\* whose longitudes each range over at most 0.01 degree (1 hundredth), all
\* points coinciding included, the view has zoom 13.
C23_TightClusterTopZoom ==
    (/\ last.op = "mapa" /\ cidade_busca # ""
     /\ ValidRows(CityRows) # <<>>
     /\ ValidRows(CityRows) = SelectSeq(CityRows, LAMBDA r : r.Latitude # NA \/ r.Longitude # NA)
     /\ \A i, j \in DOMAIN ValidRows(CityRows) :
           /\ ValidRows(CityRows)[i].Latitude - ValidRows(CityRows)[j].Latitude <= 1
           /\ ValidRows(CityRows)[i].Longitude - ValidRows(CityRows)[j].Longitude <= 1)
    => mapa.zoom_start = 13

\* C24: on a map render with a state filter and a distributor selection and
\* no city query, the centre of the view is the mean latitude and the mean
\* longitude of the records left by both filters that get a marker.
C24_CentreOfFinalSet ==
    (/\ last.op = "mapa" /\ cidade_busca = ""
     /\ estado_filtro # "" /\ distribuidores_selecionados # <<>>
     /\ mapa.markers # <<>>)
    => /\ mapa.markers = ValidRows(mapa.df_filtro)
       /\ CentreIs(mapa.location,
                   Rat(SeqSum(Coluna(mapa.markers, "Latitude")), Len(mapa.markers)),
                   Rat(SeqSum(Coluna(mapa.markers, "Longitude")), Len(mapa.markers)))

\* The records the view of the last map render was computed from, when it
\* was computed from records: the rows drawn of the city, or the rows of the
\* selected state.
ViewRows ==
    IF cidade_busca # "" /\ mapa.df_cidade # <<>> THEN CityRows
    ELSE SelectSeq(df, LAMBDA r : r.Estado = estado_filtro)

\* C25: on every map render a record whose pair of coordinates is not valid
\* has no marker, and when the view is computed from records that hold a
\* valid pair, its centre is the mean latitude and mean longitude of the
\* valid pairs alone.
C25_InvalidPairAbsent ==
    last.op = "mapa"
    => /\ \A i \in DOMAIN mapa.markers :
             lat_lon_is_valid(mapa.markers[i].Latitude, mapa.markers[i].Longitude)
       /\ (/\ cidade_busca # "" \/ estado_filtro # ""
           /\ ~(cidade_busca # "" /\ mapa.df_cidade = <<>> /\ estado_filtro = "")
           /\ ValidRows(ViewRows) # <<>>)
          => CentreIs(mapa.location,
                      Rat(SeqSum(Coluna(ValidRows(ViewRows), "Latitude")),
                          Len(ValidRows(ViewRows))),
                      Rat(SeqSum(Coluna(ValidRows(ViewRows), "Longitude")),
                          Len(ValidRows(ViewRows))))

\* C26: a non-empty city search survives a map render in which the city
\* selectbox is on its empty option, whatever the state chosen, as long as
\* "Limpar filtros" is not pressed; pressing it leaves state filter,
\* distributor selection and city search empty and the filtered view equal to
\* the whole DataFrame; and a city search becomes empty in no other run of
\* the session (a new session starts with all three empty).
C26_CitySearchSticky ==
    [][/\ (last'.op = "mapa" /\ mapa'.cidade = "" /\ ~mapa'.limpar)
          => cidade_busca' = cidade_busca
       /\ (last'.op = "mapa" /\ mapa'.limpar)
          => /\ estado_filtro' = "" /\ distribuidores_selecionados' = <<>>
             /\ cidade_busca' = ""
             /\ mapa'.df_filtro = df'
       /\ (cidade_busca # "" /\ cidade_busca' = "")
          => \/ last'.op = "mapa" /\ mapa'.limpar
             \/ /\ last'.op = "render"
                /\ estado_filtro' = "" /\ distribuidores_selecionados' = <<>>]_vars

\* The city searched is still Curitiba - PR after a render with the state
\* changed to AC and the city selectbox on its empty option.
C26_Witness ==
    /\ last.op = "mapa"
    /\ mapa.cidade = "" /\ ~mapa.limpar
    /\ mapa.estado = "AC" /\ estado_filtro = "AC"
    /\ cidade_busca = "Curitiba - PR"

\* The rows under the first of sheet sh whose distributor cell is dist after
\* trimming, and how many of them lie above row j.
OccSet(sh, dist) == {j \in 2..Len(sh) : Strip(sh[j][1]) = Strip(dist)}
OccAbove(sh, dist, j) == Cardinality({x \in OccSet(sh, dist) : x < j})

Min2(a, b) == IF a <= b THEN a ELSE b

C28_LoginGates ==
    [][/\ (cookies.usuario = "" \/ cookies.nivel = "")
          => /\ last'.op \in {"login", "none"}
             /\ sheet' = sheet /\ df' = df /\ cache' = cache
       /\ last'.op = "login"
          => cookies' = IF last'.usuario = "admin" /\ last'.senha = "admin123"
                        THEN [usuario |-> "admin", nivel |-> "editor"]
                        ELSE IF last'.usuario = "guest" /\ last'.senha = "guest123"
                        THEN [usuario |-> "guest", nivel |-> "viewer"]
                        ELSE [usuario |-> "", nivel |-> ""]
       /\ last'.op = "logout" => cookies' = [usuario |-> "", nivel |-> ""]
       /\ cookies' # cookies => last'.op \in {"login", "logout"}
       /\ (cookies'.usuario = "") <=> (cookies'.nivel = "")]_vars

\* An existing user typed another user's password: still at the login form.
C28_Witness ==
    /\ last.op = "login" /\ ~last.success
    /\ last.usuario = "admin" /\ last.senha = "guest123"
    /\ cookies = [usuario |-> "", nivel |-> ""]
    /\ Len(sheet) = 3

=============================================================================
